---- MODULE Spec2Model ----
(***************************************************************************)
(* Model of lib/application.go of mbt: the Application set, its indexes,   *)
(* the requiredBy closure (expandRequiredByDependencies) and the diff      *)
(* resolution (reduceToDiff, applicationsInDiff).                          *)
(*                                                                         *)
(* An *Application is one of the pointers in Apps.  A string (a path, a    *)
(* changed file) is a tuple of one-character strings, so that              *)
(* strings.HasPrefix, fmt.Sprintf("%s/", ..) and the byte-wise "<" of Less *)
(* are computed, not assumed.                                              *)
(***************************************************************************)
EXTENDS Integers, Sequences, FiniteSets, TLC

VARIABLES
    pc,         \* position in the entry point being executed
    name,       \* Application.name of every pointer
    requiredBy, \* Application.requiredBy of every pointer (a list of pointers)
    l,          \* the receiver of expandRequiredByDependencies / indexByName
    diff,       \* the deltas of the *git.Diff: the NewFile.Path of each
    num,        \* number of deltas diff.ForEach has handed to the callback
    apps,       \* the Applications of the target commit (applicationsInCommit)
    q,          \* the map built by indexByPath / indexByName
    filtered,   \* reduceToDiff's map of directly touched applications
    ret,        \* what the entry point returned: (Applications, error)
    ret2,       \* the second application of expandRequiredByDependencies
    calls       \* the calls applicationsInDiff made, in order

vars == <<pc, name, requiredBy, l, diff, num, apps, q, filtered, ret, ret2, calls>>

----------------------------------------------------------------------------
(* Bounds of the model *)

\* most requires edges of a graph handed to expandRequiredByDependencies
MaxEdges == 4
\* most requires edges of a graph discovered by applicationsInDiff
MaxDiffEdges == 2
\* longest receiver list of expandRequiredByDependencies / indexByName
MaxSeedLen == 2
\* most deltas in a diff
MaxDiffLen == 2

----------------------------------------------------------------------------
(* Strings *)

\* the characters used, in byte order
Alphabet == <<"-", "/", "A", "D", "E", "M", "R", "a", "b", "c", "d", "i", "m", "n", "s", "v">>

Code(c) == CHOOSE k \in DOMAIN Alphabet : Alphabet[k] = c

RECURSIVE StrLess(_, _)
\* Go's s < t on strings
StrLess(s, t) ==
    IF t = <<>> THEN FALSE
    ELSE IF s = <<>> THEN TRUE
    ELSE IF s[1] = t[1] THEN StrLess(Tail(s), Tail(t))
    ELSE Code(s[1]) < Code(t[1])

\* strings.HasPrefix(s, prefix)
HasPrefix(s, prefix) ==
    /\ Len(s) >= Len(prefix)
    /\ SubSeq(s, 1, Len(prefix)) = prefix

SvcA == <<"s", "v", "c", "-", "a">>
Main == <<"/", "m", "a", "i", "n">>

----------------------------------------------------------------------------
(* Applications *)

Apps == {"A", "B", "C", "D"}

\* Application.path of every pointer: unique, "svc-a" a string prefix of
\* "svc-ab", and "svc-a/c" a directory below "svc-a"
PathOf ==
    [a \in Apps |->
        CASE a = "A" -> SvcA
          [] a = "B" -> SvcA \o <<"b">>
          [] a = "C" -> SvcA \o <<"/", "c">>
          [] a = "D" -> <<"d">>]

\* the changed files a delta may name
Files ==
    { SvcA \o <<"b">> \o Main,
      SvcA \o Main,
      SvcA \o <<"/", "c">> \o Main,
      <<"d">> \o Main,
      <<"R", "E", "A", "D", "M", "E">> }

Name(a) == name[a]

Path(a) == PathOf[a]

RequiredBy(a) == requiredBy[a]

Range(s) == {s[k] : k \in DOMAIN s}

\* the inverse list: the applications a requires
Requires(a) == {b \in Apps : a \in Range(requiredBy[b])}

\* Applications.Less
Less(list, i, j) == StrLess(Path(list[i]), Path(list[j]))

RECURSIVE Insert(_, _)
Insert(sorted, a) ==
    IF sorted = <<>> THEN <<a>>
    ELSE IF Less(<<a>> \o sorted, 1, 2) THEN <<a>> \o sorted
    ELSE <<sorted[1]>> \o Insert(Tail(sorted), a)

RECURSIVE SortByPath(_)
\* sort.Sort(vapps): ascending by path
SortByPath(list) ==
    IF list = <<>> THEN <<>>
    ELSE Insert(SortByPath(SubSeq(list, 1, Len(list) - 1)), list[Len(list)])

\* the last position of keys that holds k: a later q[key] = a overwrites
LastAt(keys, k) ==
    CHOOSE i \in DOMAIN keys :
        /\ keys[i] = k
        /\ \A j \in DOMAIN keys : j > i => keys[j] # k

\* Applications.indexByName
indexByName(list) ==
    LET keys == [i \in DOMAIN list |-> Name(list[i])]
    IN  [k \in Range(keys) |-> list[LastAt(keys, k)]]

\* the key without the separator
PathKeyNoSeparator(a) == Path(a)

\* fmt.Sprintf("%s/", a.Path())
PathKey(a) == Path(a) \o <<"/">>

\* Applications.indexByPath
indexByPath(list) ==
    LET keys == [i \in DOMAIN list |-> PathKey(list[i])]
    IN  [k \in Range(keys) |-> list[LastAt(keys, k)]]

----------------------------------------------------------------------------
(* graph.TopSort over the requiredBy chain *)

\* requiredByNodeProvider.ID
ID(vertex) == Name(vertex)

\* requiredByNodeProvider.ChildCount
ChildCount(vertex) == Len(RequiredBy(vertex))

\* head is never advanced
ChildAlwaysFront(vertex, index) == RequiredBy(vertex)[1]

\* requiredByNodeProvider.Child: index counts from 0, head.Next() index times
Child(vertex, index) == RequiredBy(vertex)[index + 1]

NewTraversal == [state |-> [id \in {} |-> "open"], sorted |-> <<>>, cycle |-> FALSE]

StateOf(t, id) == IF id \in DOMAIN t.state THEN t.state[id] ELSE "new"

Mark(t, id, s) ==
    [t EXCEPT !.state = [x \in DOMAIN t.state \cup {id} |-> IF x = id THEN s ELSE t.state[x]]]

RECURSIVE DfsVisit(_, _)
RECURSIVE DfsChildren(_, _, _)

\* depth-first visit of one vertex: an open vertex met again is a cycle, a
\* closed one is skipped, a new one is appended after all its children
DfsVisit(vertex, t) ==
    IF t.cycle THEN t
    ELSE IF StateOf(t, ID(vertex)) = "open" THEN [t EXCEPT !.cycle = TRUE]
    ELSE IF StateOf(t, ID(vertex)) = "closed" THEN t
    ELSE LET t1 == DfsChildren(vertex, 0, Mark(t, ID(vertex), "open"))
         IN  IF t1.cycle THEN t1
             ELSE [Mark(t1, ID(vertex), "closed") EXCEPT !.sorted = Append(@, vertex)]

DfsChildren(vertex, index, t) ==
    IF t.cycle \/ index >= ChildCount(vertex) THEN t
    ELSE DfsChildren(vertex, index + 1, DfsVisit(Child(vertex, index), t))

RECURSIVE DfsAll(_, _, _)
DfsAll(nodes, k, t) ==
    IF t.cycle \/ k > Len(nodes) THEN t
    ELSE DfsAll(nodes, k + 1, DfsVisit(nodes[k], t))

\* graph.TopSort(g, &requiredByNodeProvider{}): (list, error)
TopSort(nodes) ==
    LET t == DfsAll(nodes, 1, NewTraversal)
    IN  IF t.cycle THEN [items |-> <<>>, err |-> "CycleError"]
        ELSE [items |-> t.sorted, err |-> "nil"]

----------------------------------------------------------------------------
(* Return values: (Applications, error) *)

Ok(list) == [apps |-> list, isNil |-> FALSE, err |-> "nil"]

Fail(e) == [apps |-> <<>>, isNil |-> TRUE, err |-> e]

NotReturned == [apps |-> <<>>, isNil |-> TRUE, err |-> "pending"]

Reverse(s) == [k \in 1..Len(s) |-> s[Len(s) + 1 - k]]

\* step 3 copies in the order of the sort
expandKeepsOrder(list) ==
    LET allItems == TopSort(list)
    IN  IF allItems.err # "nil" THEN Fail(allItems.err)
        ELSE Ok(allItems.items)

\* step 3 stops one element early
expandDropsLast(list) ==
    LET allItems == TopSort(list)
    IN  IF allItems.err # "nil" THEN Fail(allItems.err)
        ELSE Ok(Reverse(SubSeq(allItems.items, 1, Len(allItems.items) - 1)))

\* the error of the sort is not checked
expandIgnoresError(list) ==
    LET allItems == TopSort(list)
    IN  Ok(Reverse(allItems.items))

\* the list is returned together with the error
expandPartialOnError(list) ==
    LET allItems == TopSort(list)
    IN  [apps |-> Reverse(allItems.items), isNil |-> FALSE, err |-> allItems.err]

\* Applications.expandRequiredByDependencies
expandRequiredByDependencies(list) ==
    LET allItems == TopSort(list)
    IN  IF allItems.err # "nil" THEN Fail(allItems.err)
        ELSE Ok(Reverse(allItems.items))

\* the prefix test is inverted
CallbackInverted(f, index, delta) ==
    LET hit == {k \in DOMAIN index : k \notin DOMAIN f /\ ~HasPrefix(delta, k)}
    IN  [k \in DOMAIN f \cup hit |-> IF k \in DOMAIN f THEN f[k] ELSE index[k]]

\* the callback of diff.ForEach (reduceToDiff): every key of q that is a prefix
\* of the delta's new path and is not yet in filtered is put into filtered
Callback(f, index, delta) ==
    LET hit == {k \in DOMAIN index : k \notin DOMAIN f /\ HasPrefix(delta, k)}
    IN  [k \in DOMAIN f \cup hit |-> IF k \in DOMAIN f THEN f[k] ELSE index[k]]

----------------------------------------------------------------------------
(* Inputs *)

\* all sequences over S of length at most n
RECURSIVE SeqsUpTo(_, _)
SeqsUpTo(S, n) ==
    IF n = 0 THEN {<<>>}
    ELSE LET shorter == SeqsUpTo(S, n - 1)
         IN  shorter \cup {Append(s, x) : s \in shorter, x \in S}

\* the orders in which the elements of S can be listed
Perms(S) ==
    {s \in [1..Cardinality(S) -> S] : \A i, j \in DOMAIN s : i # j => s[i] # s[j]}

Orders == Perms(Apps)

\* <<a, b>>: a requires b
AllEdges == {e \in Apps \X Apps : e[1] # e[2]}

\* the requiredBy lists after the applications were wired in the given order:
\* b.requiredBy lists the applications requiring b in that order
Wire(E, order) == [b \in Apps |-> SelectSeq(order, LAMBDA a : <<a, b>> \in E)]

Graphs(n) ==
    {Wire(E, o) : E \in {X \in SUBSET AllEdges : Cardinality(X) <= n}, o \in Orders}

ExpandGraphs == Graphs(MaxEdges)

DiffGraphs == Graphs(MaxDiffEdges)

\* what applicationsInCommit returns for the applications found in any order
Snapshots == {SortByPath(o) : o \in Orders}

Seeds == SeqsUpTo(Apps, MaxSeedLen)

Diffs == SeqsUpTo(Files, MaxDiffLen)

UniqueNames == [a \in Apps |-> a]

NameMaps == [Apps -> Apps]

NoEdges == [a \in Apps |-> <<>>]

EmptyMap == [k \in {} |-> "A"]

----------------------------------------------------------------------------
(* applicationsInDiff *)

Init ==
    /\ pc = "start"
    /\ name = UniqueNames
    /\ requiredBy = NoEdges
    /\ l = <<>>
    /\ diff = <<>>
    /\ num = 0
    /\ apps = <<>>
    /\ q = EmptyMap
    /\ filtered = EmptyMap
    /\ ret = NotReturned
    /\ ret2 = NotReturned
    /\ calls = <<>>

\* getDiffFromMergeBase returns a diff
GetDiffOk ==
    /\ pc = "start"
    /\ \E d \in Diffs : diff' = d
    /\ calls' = Append(calls, <<"getDiffFromMergeBase", "ok">>)
    /\ pc' = "diffed"
    /\ UNCHANGED <<name, requiredBy, l, num, apps, q, filtered, ret, ret2>>

\* the error of getDiffFromMergeBase is not returned
GetDiffErrContinues ==
    /\ pc = "start"
    /\ calls' = Append(calls, <<"getDiffFromMergeBase", "err">>)
    /\ pc' = "diffed"
    /\ UNCHANGED <<name, requiredBy, l, diff, num, apps, q, filtered, ret, ret2>>

\* getDiffFromMergeBase fails: return nil, err
GetDiffErr ==
    /\ pc = "start"
    /\ calls' = Append(calls, <<"getDiffFromMergeBase", "err">>)
    /\ ret' = Fail("DiffError")
    /\ pc' = "done"
    /\ UNCHANGED <<name, requiredBy, l, diff, num, apps, q, filtered, ret2>>

\* applicationsInCommit returns the wired applications, sorted by path
DiscoverOk ==
    /\ pc = "diffed"
    /\ \E g \in DiffGraphs : requiredBy' = g
    /\ apps' \in Snapshots
    /\ calls' = Append(calls, <<"applicationsInCommit", "ok">>)
    /\ pc' = "reduce"
    /\ UNCHANGED <<name, l, diff, num, q, filtered, ret, ret2>>

\* applicationsInCommit fails: return nil, err
DiscoverErr ==
    /\ pc = "diffed"
    /\ calls' = Append(calls, <<"applicationsInCommit", "err">>)
    /\ ret' = Fail("DiscoverError")
    /\ pc' = "done"
    /\ UNCHANGED <<name, requiredBy, l, diff, num, apps, q, filtered, ret2>>

\* reduceToDiff is entered: the path index and the empty filtered map
ReduceStart ==
    /\ pc = "reduce"
    /\ q' = indexByPath(apps)
    /\ filtered' = EmptyMap
    /\ num' = 0
    /\ calls' = Append(calls, <<"reduceToDiff", "called">>)
    /\ pc' = "foreach"
    /\ UNCHANGED <<name, requiredBy, l, diff, apps, ret, ret2>>

\* diff.ForEach hands the next delta to the callback
ForEachDelta ==
    /\ pc = "foreach"
    /\ num < Len(diff)
    /\ filtered' = Callback(filtered, q, diff[num + 1])
    /\ num' = num + 1
    /\ UNCHANGED <<pc, name, requiredBy, l, diff, apps, q, ret, ret2, calls>>

\* diff.ForEach fails: return nil, wrap(err)
ForEachErr ==
    /\ pc = "foreach"
    /\ ret' = Fail("ForEachError")
    /\ pc' = "done"
    /\ UNCHANGED <<name, requiredBy, l, diff, num, apps, q, filtered, ret2, calls>>

\* the seed list built by ranging over filtered in the given key order
SeedIn(order) == [k \in DOMAIN order |-> filtered[order[k]]]

\* diff.ForEach returned nil: the touched applications are listed in the
\* map's iteration order and expanded
ReduceFinish ==
    /\ pc = "foreach"
    /\ num = Len(diff)
    /\ \E order \in Perms(DOMAIN filtered) :
           ret' = expandRequiredByDependencies(SeedIn(order))
    /\ pc' = "done"
    /\ UNCHANGED <<name, requiredBy, l, diff, num, apps, q, filtered, ret2, calls>>

Next ==
    \/ GetDiffOk
    \/ GetDiffErr
    \/ DiscoverOk
    \/ DiscoverErr
    \/ ReduceStart
    \/ ForEachDelta
    \/ ForEachErr
    \/ ReduceFinish

Spec == Init /\ [][Next]_vars

----------------------------------------------------------------------------
(* expandRequiredByDependencies on any list, and on its own result *)

InitExpand ==
    /\ pc = "expand"
    /\ name = UniqueNames
    /\ requiredBy \in ExpandGraphs
    /\ l \in Seeds
    /\ diff = <<>>
    /\ num = 0
    /\ apps = <<>>
    /\ q = EmptyMap
    /\ filtered = EmptyMap
    /\ ret = NotReturned
    /\ ret2 = NotReturned
    /\ calls = <<>>

CallExpand ==
    /\ pc = "expand"
    /\ ret' = expandRequiredByDependencies(l)
    /\ pc' = "expanded"
    /\ UNCHANGED <<name, requiredBy, l, diff, num, apps, q, filtered, ret2, calls>>

CallExpandAgain ==
    /\ pc = "expanded"
    /\ ret.err = "nil"
    /\ ret2' = expandRequiredByDependencies(ret.apps)
    /\ pc' = "expandedAgain"
    /\ UNCHANGED <<name, requiredBy, l, diff, num, apps, q, filtered, ret, calls>>

NextExpand == CallExpand \/ CallExpandAgain

SpecExpand == InitExpand /\ [][NextExpand]_vars

----------------------------------------------------------------------------
(* indexByName on any list, names not necessarily unique *)

InitIndex ==
    /\ pc = "index"
    /\ name \in NameMaps
    /\ requiredBy = NoEdges
    /\ l \in Seeds
    /\ diff = <<>>
    /\ num = 0
    /\ apps = <<>>
    /\ q = EmptyMap
    /\ filtered = EmptyMap
    /\ ret = NotReturned
    /\ ret2 = NotReturned
    /\ calls = <<>>

CallIndexByName ==
    /\ pc = "index"
    /\ q' = indexByName(l)
    /\ pc' = "indexed"
    /\ UNCHANGED <<name, requiredBy, l, diff, num, apps, filtered, ret, ret2, calls>>

NextIndex == CallIndexByName

SpecIndex == InitIndex /\ [][NextIndex]_vars

----------------------------------------------------------------------------
(* Notions the properties are stated with *)

\* one step along the requiredBy edges
Dependents(S) == UNION {Range(requiredBy[a]) : a \in S}

RECURSIVE ClosureIn(_, _)
ClosureIn(S, n) == IF n = 0 THEN S ELSE ClosureIn(S \cup Dependents(S), n - 1)

\* S and everything reachable from S by requiredBy edges
Closure(S) == ClosureIn(S, Cardinality(Apps))

\* a lies on a requires cycle
OnCycle(a) == a \in Closure(Range(requiredBy[a]))

Acyclic == \A a \in Apps : ~OnCycle(a)

CycleReachable(S) == \E a \in Closure(S) : OnCycle(a)

NoDuplicates(s) == \A i, j \in DOMAIN s : i # j => s[i] # s[j]

Position(s, a) == CHOOSE i \in DOMAIN s : s[i] = a

\* A requires B and C, B and C require D
Diamond ==
    /\ Requires("A") = {"B", "C"}
    /\ Requires("B") = {"D"}
    /\ Requires("C") = {"D"}
    /\ Requires("D") = {}

\* delta is below the path of application a
Below(delta, a) == HasPrefix(delta, Path(a) \o <<"/">>)

\* the applications in reduceToDiff's filtered map
Touched == {filtered[k] : k \in DOMAIN filtered}

\* diff.ForEach has returned nil
ForEachCompleted ==
    \/ pc = "foreach" /\ num = Len(diff)
    \/ pc = "done" /\ Len(calls) = 3 /\ ret.err # "ForEachError"

ReduceReturned == pc = "done" /\ Len(calls) = 3

NoMatch == \A i \in DOMAIN diff : \A a \in Apps : ~Below(diff[i], a)

----------------------------------------------------------------------------
(* C1: over an acyclic graph, expandRequiredByDependencies returns exactly *)
(* the applications of the receiver and those reachable from them by       *)
(* requiredBy edges, each of them once, however often the receiver lists   *)
(* an application and however many paths lead to it.                       *)
C1_ClosureEachOnce ==
    (pc # "expand" /\ Acyclic) =>
        /\ ret.err = "nil"
        /\ ~ret.isNil
        /\ Range(ret.apps) = Closure(Range(l))
        /\ NoDuplicates(ret.apps)

C1_Witness ==
    /\ pc = "expanded"
    /\ Acyclic
    /\ Len(l) = 2 /\ l[1] = l[2]
    /\ Range(ret.apps) # Apps
    /\ \E a \in Range(ret.apps) : Cardinality(Requires(a) \cap Range(ret.apps)) = 2

(* C2: in a returned list every application stands after the applications  *)
(* it requires that are in the list; for the diamond with D as the only    *)
(* receiver the list is D, then B and C, then A.                           *)
C2_ProducersFirst ==
    (pc # "expand" /\ ret.err = "nil") =>
        /\ \A i, j \in DOMAIN ret.apps :
              ret.apps[j] \in Requires(ret.apps[i]) => j < i
        /\ (Diamond /\ l = <<"D">>) =>
              /\ Range(ret.apps) = {"A", "B", "C", "D"}
              /\ Len(ret.apps) = 4
              /\ ret.apps[1] = "D"
              /\ ret.apps[4] = "A"

C2_Witness ==
    /\ pc = "expanded"
    /\ Diamond
    /\ l = <<"D">>
    /\ Position(ret.apps, "D") < Position(ret.apps, "B")
    /\ Position(ret.apps, "C") < Position(ret.apps, "A")

(* C3: when a requires cycle can be reached from the receiver, what the    *)
(* call returns is nil and the cycle error, never a list.  (The call is one *)
(* step of the model: its value is computed for every graph and receiver.)  *)
C3_CycleIsAnError ==
    (pc # "expand" /\ CycleReachable(Range(l))) =>
        /\ ret.err = "CycleError"
        /\ ret.isNil
        /\ ret.apps = <<>>

C3_Witness ==
    /\ pc = "expanded"
    /\ "B" \in Requires("A") /\ "A" \in Requires("B")
    /\ l = <<"D", "A">>
    /\ ret.err = "CycleError"

(* C8: expanding the result of an expansion succeeds and returns the same  *)
(* set of applications.                                                    *)
C8_Idempotent ==
    pc = "expandedAgain" =>
        /\ ret2.err = "nil"
        /\ ~ret2.isNil
        /\ Range(ret2.apps) = Range(ret.apps)
        /\ NoDuplicates(ret2.apps)

C8_Witness ==
    /\ pc = "expandedAgain"
    /\ Acyclic
    /\ Len(l) = 1
    /\ Cardinality(Range(ret.apps)) = 3
    /\ Range(ret2.apps) = Range(ret.apps)

(* C4: once diff.ForEach has returned nil, an application is in filtered   *)
(* exactly if some changed file starts with its path followed by "/"; a    *)
(* file svc-ab/main puts svc-ab there and not svc-a.  While ForEach runs   *)
(* the same holds of the deltas handed over so far.                        *)
C4_TouchedIffPrefix ==
    /\ pc = "foreach" =>
          \A a \in Apps : a \in Touched <=> \E i \in 1..num : Below(diff[i], a)
    /\ ForEachCompleted =>
          /\ \A a \in Apps : a \in Touched <=> \E i \in DOMAIN diff : Below(diff[i], a)
          /\ diff = <<SvcA \o <<"b">> \o Main>> => Touched = {"B"}

C4_Witness ==
    /\ pc = "done"
    /\ ret.err = "nil"
    /\ diff = <<SvcA \o <<"b">> \o Main>>
    /\ "B" \in Touched
    /\ "A" \notin Touched

(* C5: the list reduceToDiff returns is the one it returns for every       *)
(* order in which the filtered map can be ranged over.                     *)
C5_SameForEveryMapOrder ==
    (ReduceReturned /\ ret.err = "nil") =>
        \A order \in Perms(DOMAIN filtered) :
            expandRequiredByDependencies(SeedIn(order)) = ret

(* C6: when no changed file is below an application's path, reduceToDiff   *)
(* returns the empty list and no error.  Stated as the claim has it, and   *)
(* then for the returns that follow a diff.ForEach that returned nil.      *)
C6_NoMatchIsEmpty ==
    (ReduceReturned /\ NoMatch) => ret = Ok(<<>>)

C6_NoMatchIsEmptyUnlessForEachFails ==
    /\ (ReduceReturned /\ NoMatch /\ ret.err # "ForEachError") => ret = Ok(<<>>)
    /\ (ReduceReturned /\ NoMatch /\ ret.err = "ForEachError") => ret.isNil

C6_Witness ==
    /\ ReduceReturned
    /\ diff = <<<<"R", "E", "A", "D", "M", "E">>>>
    /\ ~Acyclic
    /\ ret = Ok(<<>>)

(* C7: what is returned is a list without an error, or nil with an error;  *)
(* a list is returned only when the diff, the discovery and the iteration  *)
(* succeeded and no cycle can be reached from the touched applications.    *)
C7_ListOrError ==
    pc = "done" =>
        \/ /\ ret.err = "nil"
           /\ ~ret.isNil
           /\ calls = << <<"getDiffFromMergeBase", "ok">>,
                         <<"applicationsInCommit", "ok">>,
                         <<"reduceToDiff", "called">> >>
           /\ num = Len(diff)
           /\ ~CycleReachable(Touched)
        \/ /\ ret.err \in {"DiffError", "DiscoverError", "ForEachError", "CycleError"}
           /\ ret.isNil
           /\ ret.apps = <<>>

C7_Witness ==
    /\ pc = "done"
    /\ ret.err = "CycleError"
    /\ ret.isNil
    /\ Touched # {}

(* C10: as the claim has it, every request for the diff follows a          *)
(* successful discovery of the applications, and reduceToDiff starts after *)
(* both succeeded.                                                         *)
C10_DiscoveryBeforeDiff ==
    \A i \in DOMAIN calls :
        /\ calls[i][1] = "getDiffFromMergeBase" =>
              \E j \in 1..(i - 1) : calls[j] = <<"applicationsInCommit", "ok">>
        /\ calls[i][1] = "reduceToDiff" =>
              /\ \E j \in 1..(i - 1) : calls[j] = <<"applicationsInCommit", "ok">>
              /\ \E j \in 1..(i - 1) : calls[j] = <<"getDiffFromMergeBase", "ok">>

(* C10 as the code has it: the diff is requested first, the applications   *)
(* are discovered only after the diff was returned, reduceToDiff starts    *)
(* only after both succeeded, and a failed diff means no discovery.        *)
C10_DiffBeforeDiscovery ==
    /\ \A i \in DOMAIN calls :
          /\ calls[i][1] = "getDiffFromMergeBase" => i = 1
          /\ calls[i][1] = "applicationsInCommit" =>
                i = 2 /\ calls[1] = <<"getDiffFromMergeBase", "ok">>
          /\ calls[i][1] = "reduceToDiff" =>
                /\ i = 3
                /\ calls[1] = <<"getDiffFromMergeBase", "ok">>
                /\ calls[2] = <<"applicationsInCommit", "ok">>
    /\ (pc = "done" /\ ret.err = "DiffError") => Len(calls) = 1

C10_Witness ==
    /\ pc = "done"
    /\ calls = << <<"getDiffFromMergeBase", "ok">>, <<"applicationsInCommit", "err">> >>
    /\ ret.err = "DiscoverError"

(* C9: as the claim has it, the index indexByName returns misses no        *)
(* application of the list (two applications of one name would have made   *)
(* it fail instead).                                                       *)
C9_NoApplicationMissing ==
    pc = "indexed" => \A i \in DOMAIN l : \E k \in DOMAIN q : q[k] = l[i]

====
